---------------------------- MODULE Spec2Model ----------------------------
(***************************************************************************)
(* A model of src/index.js: the fluent validator library (BaseValidator    *)
(* and its String / Number / Boolean / Array / JSON variants, Schema, and  *)
(* the Validator factory).                                                 *)
(*                                                                         *)
(* JavaScript values are tagged records.  A JS string is a sequence of     *)
(* one-character strings, so that length, indexing, the two regular        *)
(* expressions and JSON.parse are computed and not assumed.  Field names   *)
(* and messages are TLA+ strings.  A thrown value is a record; a call's    *)
(* result is either a return or a throw, together with the log of the      *)
(* validate calls, pre-checks and Rules it invoked, in invocation order.   *)
(*                                                                         *)
(* Validators are held by value: the validator given to items() or to      *)
(* createSchema() is finished before it is handed over.                    *)
(***************************************************************************)
EXTENDS Integers, Sequences, FiniteSets, TLC

VARIABLES
    self,       \* the FieldValidator instance being chained and validated
    calls,      \* history: the constraint methods called on self, in order
    schemaObj,  \* the Schema instance (NoObject before any is created)
    op,         \* the name of the last operation performed
    arg,        \* the input of the last operation
    result,     \* what the last operation returned or threw
    log         \* the validate calls, pre-checks and Rules it invoked

vars == <<self, calls, schemaObj, op, arg, result, log>>

-----------------------------------------------------------------------------
(* Bounds of the model.                                                    *)

\* the number of constraint methods chained onto one validator
MaxRules == 2
\* the number of keys of a record handed to Schema.validate
MaxKeys == 2

-----------------------------------------------------------------------------
(* JavaScript values.                                                      *)

JsUndefined == [t |-> "undefined"]
JsNull == [t |-> "null"]
JsBoolean(b) == [t |-> "boolean", b |-> b]
JsNumber(n) == [t |-> "number", n |-> n]
JsString(chars) == [t |-> "string", s |-> chars]
JsArray(elems) == [t |-> "object", a |-> elems]

NoObject == [t |-> "none"]

\* typeof value (null and arrays are "object")
TypeOf(v) == IF v.t = "null" THEN "object" ELSE v.t

IsArray(v) == v.t = "object"

Digits == <<"0", "1", "2", "3", "4", "5", "6", "7", "8", "9">>

IsDigit(c) == \E i \in 1..Len(Digits) : Digits[i] = c

DigitValue(c) == (CHOOSE i \in 1..Len(Digits) : Digits[i] = c) - 1

IsWhitespace(c) == c = " "

RECURSIVE NatToChars(_)
NatToChars(n) ==
    IF n < Len(Digits) THEN <<Digits[n + 1]>>
    ELSE NatToChars(n \div Len(Digits)) \o <<Digits[(n % Len(Digits)) + 1]>>

\* Number::toString for the integers
NumberToChars(n) == IF n < 0 THEN <<"-">> \o NatToChars(0 - n) ELSE NatToChars(n)

RECURSIVE ToChars(_)
RECURSIVE JoinChars(_, _)
\* Array.prototype.join over the elements' strings: null and undefined
\* elements contribute the empty string
JoinChars(elems, sep) ==
    IF elems = <<>> THEN <<>>
    ELSE (IF Head(elems).t \in {"undefined", "null"} THEN <<>> ELSE ToChars(Head(elems)))
         \o (IF Len(elems) = 1 THEN <<>> ELSE sep \o JoinChars(Tail(elems), sep))

\* ToString(value): String(value), and the implicit conversion of the
\* argument of RegExp.prototype.test and of JSON.parse
ToChars(v) ==
    CASE v.t = "undefined" -> <<"u", "n", "d", "e", "f", "i", "n", "e", "d">>
      [] v.t = "null" -> <<"n", "u", "l", "l">>
      [] v.t = "boolean" -> IF v.b THEN <<"t", "r", "u", "e">>
                            ELSE <<"f", "a", "l", "s", "e">>
      [] v.t = "number" -> NumberToChars(v.n)
      [] v.t = "string" -> v.s
      [] v.t = "object" -> JoinChars(v.a, <<",">>)

RECURSIVE Concat(_)
\* a sequence of characters as one TLA+ string (template literals)
Concat(chars) == IF chars = <<>> THEN "" ELSE Head(chars) \o Concat(Tail(chars))

Text(v) == Concat(ToChars(v))

RECURSIVE TrimLeft(_)
TrimLeft(chars) ==
    IF chars # <<>> /\ IsWhitespace(Head(chars)) THEN TrimLeft(Tail(chars)) ELSE chars

RECURSIVE TrimRight(_)
TrimRight(chars) ==
    IF chars # <<>> /\ IsWhitespace(chars[Len(chars)])
    THEN TrimRight(SubSeq(chars, 1, Len(chars) - 1)) ELSE chars

AllDigits(chars) == chars # <<>> /\ \A i \in 1..Len(chars) : IsDigit(chars[i])

RECURSIVE DigitsValue(_)
DigitsValue(chars) ==
    IF chars = <<>> THEN 0
    ELSE DigitsValue(SubSeq(chars, 1, Len(chars) - 1)) * Len(Digits)
         + DigitValue(chars[Len(chars)])

NaN == [nan |-> TRUE]
Num(n) == [nan |-> FALSE, n |-> n]

\* StringToNumber for the strings of the model: white space is trimmed, the
\* empty string is 0, an optionally signed run of decimal digits is its
\* value, anything else is NaN (the model's strings hold no fraction,
\* exponent, hexadecimal or Infinity literal)
StrNumericLiteral(t) ==
    IF t = <<>> THEN Num(0)
    ELSE IF AllDigits(t) THEN Num(DigitsValue(t))
    ELSE IF Head(t) = "-" /\ AllDigits(Tail(t)) THEN Num(0 - DigitsValue(Tail(t)))
    ELSE IF Head(t) = "+" /\ AllDigits(Tail(t)) THEN Num(DigitsValue(Tail(t)))
    ELSE NaN

StringToNumber(chars) == StrNumericLiteral(TrimRight(TrimLeft(chars)))

\* ToNumber(value); an array goes through its string
ToNumber(v) ==
    CASE v.t = "undefined" -> NaN
      [] v.t = "null" -> Num(0)
      [] v.t = "boolean" -> IF v.b THEN Num(1) ELSE Num(0)
      [] v.t = "number" -> Num(v.n)
      [] v.t \in {"string", "object"} -> StringToNumber(ToChars(v))

\* value < bound and value > bound for a numeric bound: both sides go
\* through ToNumber and a NaN makes the comparison false
NumLess(x, y) == ~x.nan /\ ~y.nan /\ x.n < y.n

LessThan(v, bound) == NumLess(ToNumber(v), Num(bound))

GreaterThan(v, bound) == NumLess(Num(bound), ToNumber(v))

\* value.length: the length of a string or an array, undefined on a number
\* or a boolean; reading it off null or undefined throws
HasProperties(v) == v.t \notin {"undefined", "null"}

LengthOf(v) ==
    CASE v.t = "string" -> JsNumber(Len(v.s))
      [] v.t = "object" -> JsNumber(Len(v.a))
      [] OTHER -> JsUndefined

\* value[i] for a zero-based index i below value.length
ElementAt(v, i) == IF v.t = "string" THEN JsString(<<v.s[i + 1]>>) ELSE v.a[i + 1]

\* Array.prototype.includes: SameValueZero; an array is equal only to itself,
\* and no input array is one of the allowed values' own objects
Includes(allowedValues, v) ==
    \E i \in 1..Len(allowedValues) : ~IsArray(v) /\ allowedValues[i] = v

-----------------------------------------------------------------------------
(* Regular expressions and JSON.parse.                                     *)

\* [^\s@]
EmailChar(c) == ~IsWhitespace(c) /\ c # "@"

\* /^[^\s@]+@[^\s@]+\.[^\s@]+$/ on the characters s
EmailMatch(s) ==
    \E i, j \in 1..Len(s) :
        /\ 1 < i /\ i + 1 < j /\ j < Len(s)
        /\ s[i] = "@" /\ s[j] = "."
        /\ \A k \in 1..Len(s) : k # i => EmailChar(s[k])

\* emailRegex.test(value)
EmailTest(v) == EmailMatch(ToChars(v))

\* /^\+?[0-9]{10,12}$/ on the characters s
PhoneMatch(s) ==
    \E d \in {IF s # <<>> /\ Head(s) = "+" THEN Tail(s) ELSE s} :
        AllDigits(d) /\ Len(d) >= 10 /\ Len(d) <= 12

\* phoneRegex.test(String(value))
PhoneTest(v) == PhoneMatch(ToChars(v))

\* the patterns handed to reg()
Masks == {"^[0-9]+$", "^a"}

\* new RegExp(mask) on the characters s, for the patterns of Masks
MaskMatch(mask, s) ==
    CASE mask = "^[0-9]+$" -> AllDigits(s)
      [] mask = "^a" -> s # <<>> /\ Head(s) = "a"

\* new RegExp(mask).test(value)
RegExpTest(mask, v) == MaskMatch(mask, ToChars(v))

\* the character at position i, "" past the end
At(s, i) == IF i >= 1 /\ i <= Len(s) THEN s[i] ELSE ""

RECURSIVE SkipWs(_, _)
SkipWs(s, i) == IF IsWhitespace(At(s, i)) THEN SkipWs(s, i + 1) ELSE i

RECURSIVE SkipDigits(_, _)
SkipDigits(s, i) == IF IsDigit(At(s, i)) THEN SkipDigits(s, i + 1) ELSE i

\* The JSON recognisers take a position and give the position after what
\* they recognised, or 0 when the text does not match there.

JsonLiteral(s, i, lit) ==
    IF i + Len(lit) - 1 <= Len(s) /\ SubSeq(s, i, i + Len(lit) - 1) = lit
    THEN i + Len(lit) ELSE 0

\* at least one digit from position i on
JsonDigits(s, i) == IF IsDigit(At(s, i)) THEN SkipDigits(s, i) ELSE 0

\* ([eE] [+-]? [0-9]+)? from position p on
JsonExponent(s, p) ==
    IF p = 0 THEN 0
    ELSE IF At(s, p) \notin {"e", "E"} THEN p
    ELSE JsonDigits(s, IF At(s, p + 1) \in {"+", "-"} THEN p + 2 ELSE p + 1)

\* (. [0-9]+)? from position p on
JsonFraction(s, p) ==
    IF p = 0 THEN 0
    ELSE IF At(s, p) # "." THEN p
    ELSE JsonDigits(s, p + 1)

\* 0 | [1-9][0-9]*
JsonInteger(s, p) == IF At(s, p) = "0" THEN p + 1 ELSE JsonDigits(s, p)

\* -? integer fraction? exponent?
JsonNumber(s, i) ==
    JsonExponent(s, JsonFraction(s, JsonInteger(s, IF At(s, i) = "-" THEN i + 1 ELSE i)))

HexChars == {"a", "b", "c", "d", "e", "f", "A", "B", "C", "D", "E", "F"}

IsHex(c) == IsDigit(c) \/ c \in HexChars

RECURSIVE JsonStringBody(_, _)
\* after the opening quote: characters and escapes up to the closing quote
JsonStringBody(s, i) ==
    IF At(s, i) = "" THEN 0
    ELSE IF At(s, i) = "\"" THEN i + 1
    ELSE IF At(s, i) # "\\" THEN JsonStringBody(s, i + 1)
    ELSE IF At(s, i + 1) \in {"\"", "\\", "/", "b", "f", "n", "r", "t"}
    THEN JsonStringBody(s, i + 2)
    ELSE IF At(s, i + 1) = "u" /\ \A k \in 2..5 : IsHex(At(s, i + k))
    THEN JsonStringBody(s, i + 6)
    ELSE 0

JsonString(s, i) == IF At(s, i) = "\"" THEN JsonStringBody(s, i + 1) ELSE 0

RECURSIVE JsonValue(_, _)
RECURSIVE JsonElements(_, _)
RECURSIVE JsonMembers(_, _)

\* after a value of an array, at position p: ] ends it, a comma goes on
JsonElementEnd(s, p) ==
    IF p = 0 THEN 0
    ELSE IF At(s, p) = "]" THEN p + 1
    ELSE IF At(s, p) = "," THEN JsonElements(s, p + 1)
    ELSE 0

\* value (, value)* ]
JsonElements(s, i) == JsonElementEnd(s, JsonValue(s, i))

\* after a value of an object, at position p: } ends it, a comma goes on
JsonMemberEnd(s, p) ==
    IF p = 0 THEN 0
    ELSE IF At(s, p) = "}" THEN p + 1
    ELSE IF At(s, p) = "," THEN JsonMembers(s, p + 1)
    ELSE 0

\* : value, at position c after a member's name
JsonMemberValue(s, c) ==
    IF c = 0 \/ At(s, c) # ":" THEN 0 ELSE JsonMemberEnd(s, JsonValue(s, c + 1))

\* the white space after a member's name, which ended before position k
JsonMemberName(s, k) == IF k = 0 THEN 0 ELSE SkipWs(s, k)

\* string : value (, string : value)* }
JsonMembers(s, i) == JsonMemberValue(s, JsonMemberName(s, JsonString(s, SkipWs(s, i))))

\* after the opening brace, white space skipped
JsonObject(s, c) == IF At(s, c) = "}" THEN c + 1 ELSE JsonMembers(s, c)

\* after the opening bracket, white space skipped
JsonArray(s, c) == IF At(s, c) = "]" THEN c + 1 ELSE JsonElements(s, c)

\* object | array | string | number | true | false | null at position b
JsonToken(s, b) ==
    CASE At(s, b) = "{" -> JsonObject(s, SkipWs(s, b + 1))
      [] At(s, b) = "[" -> JsonArray(s, SkipWs(s, b + 1))
      [] At(s, b) = "\"" -> JsonString(s, b)
      [] At(s, b) = "t" -> JsonLiteral(s, b, <<"t", "r", "u", "e">>)
      [] At(s, b) = "f" -> JsonLiteral(s, b, <<"f", "a", "l", "s", "e">>)
      [] At(s, b) = "n" -> JsonLiteral(s, b, <<"n", "u", "l", "l">>)
      [] OTHER -> JsonNumber(s, b)

\* the white space after a value, which ended before position p
JsonTrail(s, p) == IF p = 0 THEN 0 ELSE SkipWs(s, p)

\* ws value ws
JsonValue(s, i) == JsonTrail(s, JsonToken(s, SkipWs(s, i)))

\* whether the characters s are one JSON text
JsonText(s) == JsonValue(s, 1) = Len(s) + 1

\* whether JSON.parse(value) returns (TRUE) or throws a SyntaxError (FALSE):
\* the argument is converted to a string first
JsonParses(v) == JsonText(ToChars(v))

-----------------------------------------------------------------------------
(* Results, thrown values and the log.                                     *)

Return(v) == [type |-> "return", value |-> v]
Throw(e) == [type |-> "throw", error |-> e]

\* throw { field, message }
ValidationError(field, message) == [field |-> field, message |-> message]

\* the TypeError the engine throws when length is read off null or
\* undefined; it has a message and no field
TypeError(v) ==
    [name |-> "TypeError",
     message |-> "Cannot read properties of " \o Text(v) \o " (reading 'length')"]

Threw(r) == r.out.type = "throw"

\* a Rule that returns
Passed == [out |-> Return(JsUndefined), log |-> <<>>]

\* a Rule that throws e
Failed(e) == [out |-> Throw(e), log |-> <<>>]

Event(ev, field, idx, name) == [ev |-> ev, field |-> field, idx |-> idx, op |-> name]

\* the result r of a call, with the events before it put in front of its log
After(events, r) == [out |-> r.out, log |-> events \o r.log]

-----------------------------------------------------------------------------
(* The Rules: the closures the constraint methods push.                    *)

RECURSIVE Validate(_, _, _)

\* RequiredRule without the '' case: the variant `value === undefined ||
\* value === null` of the condition at line 10
RequiredRule_EmptyAllowed(value, field) ==
    IF value = JsUndefined \/ value = JsNull
    THEN Failed(ValidationError(field, "Value is required"))
    ELSE Passed

RequiredRule(value, field) ==
    IF value = JsUndefined \/ value = JsNull \/ value = JsString(<<>>)
    THEN Failed(ValidationError(field, "Value is required"))
    ELSE Passed

OneOfRule(allowedValues, value, field) ==
    IF ~Includes(allowedValues, value)
    THEN Failed(ValidationError(field,
             "Value must be one of: " \o Concat(JoinChars(allowedValues, <<",", " ">>))))
    ELSE Passed

EmailRule(value, field) ==
    IF ~EmailTest(value)
    THEN Failed(ValidationError(field, "Invalid email format"))
    ELSE Passed

StringMinRule(length, value, field) ==
    IF ~HasProperties(value) THEN Failed(TypeError(value))
    ELSE IF LessThan(LengthOf(value), length)
    THEN Failed(ValidationError(field,
             "Value must be at least " \o Text(JsNumber(length)) \o " characters long"))
    ELSE Passed

StringMaxRule(length, value, field) ==
    IF ~HasProperties(value) THEN Failed(TypeError(value))
    ELSE IF GreaterThan(LengthOf(value), length)
    THEN Failed(ValidationError(field,
             "Value must be no more than " \o Text(JsNumber(length)) \o " characters long"))
    ELSE Passed

RegRule(mask, value, field) ==
    IF ~RegExpTest(mask, value)
    THEN Failed(ValidationError(field, "String does not match the required pattern"))
    ELSE Passed

NumberMinRule(minValue, value, field) ==
    IF LessThan(value, minValue)
    THEN Failed(ValidationError(field,
             "Value must be greater than or equal to " \o Text(JsNumber(minValue))))
    ELSE Passed

NumberMaxRule(maxValue, value, field) ==
    IF GreaterThan(value, maxValue)
    THEN Failed(ValidationError(field,
             "Value must be less than or equal to " \o Text(JsNumber(maxValue))))
    ELSE Passed

PhoneRule(value, field) ==
    IF ~PhoneTest(value)
    THEN Failed(ValidationError(field, "Invalid phone number format"))
    ELSE Passed

MinLengthRule(length, value, field) ==
    IF ~HasProperties(value) THEN Failed(TypeError(value))
    ELSE IF LessThan(LengthOf(value), length)
    THEN Failed(ValidationError(field,
             "Array must contain at least " \o Text(JsNumber(length)) \o " items"))
    ELSE Passed

MaxLengthRule(length, value, field) ==
    IF ~HasProperties(value) THEN Failed(TypeError(value))
    ELSE IF GreaterThan(LengthOf(value), length)
    THEN Failed(ValidationError(field,
             "Array must contain no more than " \o Text(JsNumber(length)) \o " items"))
    ELSE Passed

\* `${field}[${i}]`
ItemField(field, i) == field \o "[" \o Text(JsNumber(i)) \o "]"

\* catch (error) { throw { field: error.field, message: error.message } }:
\* a caught TypeError has no field, and the object thrown has none either
Rethrow(error) ==
    IF "field" \in DOMAIN error
    THEN ValidationError(error.field, error.message)
    ELSE [message |-> error.message]

RECURSIVE ItemsLoop(_, _, _, _)

\* ItemsStep reporting the array's own field instead of error.field
ItemsStep_OuterField(r, validator, value, field, i) ==
    IF Threw(r) THEN [out |-> Throw([field |-> field, message |-> r.out.error.message]),
                      log |-> r.log]
    ELSE After(r.log, ItemsLoop(validator, value, field, i + 1))

\* the body of the for loop of the items Rule at index i, where r is what
\* validator.validate(value[i], `${field}[${i}]`) gave
ItemsStep(r, validator, value, field, i) ==
    IF Threw(r) THEN [out |-> Throw(Rethrow(r.out.error)), log |-> r.log]
    ELSE After(r.log, ItemsLoop(validator, value, field, i + 1))

\* for (let i = 0; i < value.length; i++), from index i on
ItemsLoop(validator, value, field, i) ==
    IF ~LessThan(JsNumber(i), ToNumber(LengthOf(value)).n) THEN Passed
    ELSE ItemsStep(Validate(validator, ElementAt(value, i), ItemField(field, i)),
                   validator, value, field, i)

ItemsRule(validator, value, field) ==
    IF ~HasProperties(value) THEN Failed(TypeError(value))
    ELSE IF ToNumber(LengthOf(value)).nan THEN Passed
    ELSE ItemsLoop(validator, value, field, 0)

\* rule(value, field)
ApplyRule(rule, value, field) ==
    CASE rule.op = "required" -> RequiredRule(value, field)
      [] rule.op = "oneOf" -> OneOfRule(rule.allowedValues, value, field)
      [] rule.op = "email" -> EmailRule(value, field)
      [] rule.op = "string.min" -> StringMinRule(rule.length, value, field)
      [] rule.op = "string.max" -> StringMaxRule(rule.length, value, field)
      [] rule.op = "reg" -> RegRule(rule.mask, value, field)
      [] rule.op = "number.min" -> NumberMinRule(rule.minValue, value, field)
      [] rule.op = "number.max" -> NumberMaxRule(rule.maxValue, value, field)
      [] rule.op = "phone" -> PhoneRule(value, field)
      [] rule.op = "minLength" -> MinLengthRule(rule.length, value, field)
      [] rule.op = "maxLength" -> MaxLengthRule(rule.length, value, field)
      [] rule.op = "items" -> ItemsRule(rule.validator, value, field)

-----------------------------------------------------------------------------
(* validate(value, field) of the five validator classes.                   *)

RECURSIVE RunRules(_, _, _, _)

\* RunStep collecting instead of failing fast: a failing Rule does not stop
\* the loop, and the last failure is the one thrown
RunStep_LastWins(r, rules, i, value, field) ==
    IF Threw(r) /\ ~Threw(RunRules(rules, i + 1, value, field)) THEN r
    ELSE After(r.log, RunRules(rules, i + 1, value, field))

\* the body of the loop over this.rules at the i-th Rule, where r is what
\* rule(value, field) gave: a Rule that throws ends the loop
RunStep(r, rules, i, value, field) ==
    IF Threw(r) THEN r ELSE After(r.log, RunRules(rules, i + 1, value, field))

\* for (let rule of this.rules) rule(value, field), from the i-th Rule on;
\* return true
RunRules(rules, i, value, field) ==
    IF i > Len(rules) THEN [out |-> Return(JsBoolean(TRUE)), log |-> <<>>]
    ELSE After(<<Event("rule", field, i, rules[i].op)>>,
               RunStep(ApplyRule(rules[i], value, field), rules, i, value, field))

\* Skipped without the shortcut for undefined
Skipped_Never(this, value) == FALSE

\* value === undefined && !this.isRequired
Skipped(this, value) == value = JsUndefined /\ ~this.isRequired

BaseValidate(this, value, field) ==
    IF Skipped(this, value) THEN Passed
    ELSE RunRules(this.rules, 1, value, field)

\* BooleanValidate with super.validate() called before the typeof check
BooleanValidate_RulesFirst(this, value, field) ==
    IF Skipped(this, value) THEN Passed
    ELSE IF Threw(BaseValidate(this, value, field)) THEN BaseValidate(this, value, field)
    ELSE After(BaseValidate(this, value, field).log \o <<Event("typeof", field, 0, "boolean")>>,
               IF TypeOf(value) # "boolean"
               THEN Failed(ValidationError(field, "Value must be a boolean"))
               ELSE Passed)

BooleanValidate(this, value, field) ==
    IF Skipped(this, value) THEN Passed
    ELSE After(<<Event("typeof", field, 0, "boolean")>>,
               IF TypeOf(value) # "boolean"
               THEN Failed(ValidationError(field, "Value must be a boolean"))
               ELSE BaseValidate(this, value, field))

JSONValidate(this, value, field) ==
    IF Skipped(this, value) THEN Passed
    ELSE After(<<Event("JSON.parse", field, 0, "json")>>,
               IF ~JsonParses(value)
               THEN Failed(ValidationError(field, "Invalid JSON format"))
               ELSE BaseValidate(this, value, field))

\* validator.validate(value, field), dispatched on the validator's class
Validate(this, value, field) ==
    After(<<Event("validate", field, 0, this.kind)>>,
          CASE this.kind = "boolean" -> BooleanValidate(this, value, field)
            [] this.kind = "json" -> JSONValidate(this, value, field)
            [] OTHER -> BaseValidate(this, value, field))

-----------------------------------------------------------------------------
(* Construction: the factory and the constraint methods.  Each constraint  *)
(* method gives the instance it was called on, after the call.             *)

\* new BaseValidator(), under the class named kind
BaseValidator(kind) == [kind |-> kind, rules |-> <<>>, isRequired |-> FALSE]

StringValidator == BaseValidator("string")
NumberValidator == BaseValidator("number")
BooleanValidator == BaseValidator("boolean")
JSONValidator == BaseValidator("json")

ArrayValidator ==
    [kind |-> "array", rules |-> <<>>, isRequired |-> FALSE, itemValidator |-> JsNull]

Kinds == {"string", "number", "boolean", "array", "json"}

\* Validator.string(), number(), boolean(), array(), json()
Factory(kind) ==
    CASE kind = "string" -> StringValidator
      [] kind = "number" -> NumberValidator
      [] kind = "boolean" -> BooleanValidator
      [] kind = "array" -> ArrayValidator
      [] kind = "json" -> JSONValidator

\* this.rules.push(rule)
Push(this, rule) == [this EXCEPT !.rules = Append(@, rule)]

\* required() without the assignment this.isRequired = true
required_FlagUnset(this) == Push(this, [op |-> "required"])

required(this) == Push([this EXCEPT !.isRequired = TRUE], [op |-> "required"])

oneOf(this, allowedValues) ==
    Push(this, [op |-> "oneOf", allowedValues |-> allowedValues])

email(this) == Push(this, [op |-> "email"])

StringMin(this, length) == Push(this, [op |-> "string.min", length |-> length])

StringMax(this, length) == Push(this, [op |-> "string.max", length |-> length])

reg(this, mask) == Push(this, [op |-> "reg", mask |-> mask])

NumberMin(this, minValue) == Push(this, [op |-> "number.min", minValue |-> minValue])

NumberMax(this, maxValue) == Push(this, [op |-> "number.max", maxValue |-> maxValue])

phone(this) == Push(this, [op |-> "phone"])

minLength(this, length) == Push(this, [op |-> "minLength", length |-> length])

maxLength(this, length) == Push(this, [op |-> "maxLength", length |-> length])

items(this, validator) ==
    Push([this EXCEPT !.itemValidator = validator],
         [op |-> "items", validator |-> validator])

-----------------------------------------------------------------------------
(* Schema.                                                                 *)
(* A schema definition and a record are objects with string keys: each is  *)
(* the sequence of its entries [key, value] in key enumeration order, the  *)
(* keys distinct.                                                          *)

\* new Schema(schema, only): this.schema = new Map(Object.entries(schema))
Schema(schema, only) == [schema |-> schema, only |-> only]

\* Validator.createSchema(schemaDefinition, only)
createSchema(schemaDefinition, only) == Schema(schemaDefinition, only)

\* Array.from(this.schema.keys())
SchemaKeys(this) == [i \in 1..Len(this.schema) |-> this.schema[i].key]

\* Object.keys(data)
ObjectKeys(data) == [i \in 1..Len(data) |-> data[i].key]

\* keys.includes(key)
KeysInclude(keys, key) == \E i \in 1..Len(keys) : keys[i] = key

\* key in data
In(key, data) == KeysInclude(ObjectKeys(data), key)

\* data[key]: undefined for a key not in data
Get(data, key) ==
    IF \E i \in 1..Len(data) : data[i].key = key
    THEN data[CHOOSE i \in 1..Len(data) : data[i].key = key].value
    ELSE JsUndefined

\* dataKeys.filter(key => !schemaKeys.includes(key))
ExtraFields(schemaKeys, dataKeys) ==
    SelectSeq(dataKeys, LAMBDA key : ~KeysInclude(schemaKeys, key))

Chars_success ==
    <<"V", "a", "l", "i", "d", "a", "t", "i", "o", "n", " ",
      "s", "u", "c", "c", "e", "s", "s", "f", "u", "l">>

RECURSIVE FieldsLoop(_, _, _)

\* FieldsStep collecting instead of failing fast: a rejected field does not
\* stop the loop, and the last rejection is the one thrown
FieldsStep_LastWins(r, this, data, i) ==
    IF Threw(r) /\ ~Threw(FieldsLoop(this, data, i + 1)) THEN r
    ELSE After(r.log, FieldsLoop(this, data, i + 1))

\* the body of the third loop at the i-th key, where r is what
\* validator.validate(data[key], key) gave
FieldsStep(r, this, data, i) ==
    IF Threw(r) THEN r ELSE After(r.log, FieldsLoop(this, data, i + 1))

\* for (let key of schemaKeys) if (key in data) validator.validate(data[key],
\* key), from the i-th key on; return 'Validation successful'
FieldsLoop(this, data, i) ==
    IF i > Len(this.schema) THEN [out |-> Return(JsString(Chars_success)), log |-> <<>>]
    ELSE IF ~In(this.schema[i].key, data) THEN FieldsLoop(this, data, i + 1)
    ELSE FieldsStep(Validate(this.schema[i].value,
                             Get(data, this.schema[i].key), this.schema[i].key),
                    this, data, i)

RECURSIVE RequiredLoop(_, _, _)
\* RequiredLoop testing data[key] == null instead of !(key in data)
RequiredLoop_NullAbsent(this, data, i) ==
    IF i > Len(this.schema) THEN Passed
    ELSE After(<<Event("in", this.schema[i].key, i, "schema")>>,
               IF /\ Get(data, this.schema[i].key) \in {JsUndefined, JsNull}
                  /\ this.schema[i].value.isRequired
               THEN Failed(ValidationError(this.schema[i].key, "Field is required"))
               ELSE RequiredLoop(this, data, i + 1))

\* for (let [key, validator] of this.schema.entries()), from the i-th entry
\* on: an absent key whose validator is required throws
RequiredLoop(this, data, i) ==
    IF i > Len(this.schema) THEN Passed
    ELSE After(<<Event("in", this.schema[i].key, i, "schema")>>,
               IF ~In(this.schema[i].key, data) /\ this.schema[i].value.isRequired
               THEN Failed(ValidationError(this.schema[i].key, "Field is required"))
               ELSE RequiredLoop(this, data, i + 1))

\* the two loops one after the other, where r is what the first one gave
AfterRequired(r, this, data) ==
    IF Threw(r) THEN r ELSE After(r.log, FieldsLoop(this, data, 1))

\* StrictCheck with the strict-mode block moved after the required-field
\* loop
StrictCheck_AfterRequired(extraFields, this, data) ==
    IF Threw(RequiredLoop(this, data, 1)) THEN RequiredLoop(this, data, 1)
    ELSE IF this.only /\ Len(extraFields) > 0
    THEN After(RequiredLoop(this, data, 1).log,
               Failed(ValidationError(extraFields[1],
                   "Unexpected field '" \o extraFields[1] \o "' not defined in schema")))
    ELSE AfterRequired(RequiredLoop(this, data, 1), this, data)

\* if (this.only) { ... } with extraFields computed
StrictCheck(extraFields, this, data) ==
    IF this.only /\ Len(extraFields) > 0
    THEN Failed(ValidationError(extraFields[1],
             "Unexpected field '" \o extraFields[1] \o "' not defined in schema"))
    ELSE AfterRequired(RequiredLoop(this, data, 1), this, data)

\* schema.validate(data)
SchemaValidate(this, data) ==
    StrictCheck(ExtraFields(SchemaKeys(this), ObjectKeys(data)), this, data)

-----------------------------------------------------------------------------
(* The inputs the operations are driven with.                              *)

Chars_ab == <<"a", "b">>
Chars_email == <<"a", "@", "b", ".", "c", "o">>
Chars_null == <<"n", "u", "l", "l">>
Chars_object == <<"{", "\"", "a", "\"", ":", "1", "}">>
Chars_badObject == <<"{", "a", ":", "1", "}">>

Array_1_m1_2 == JsArray(<<JsNumber(1), JsNumber(-1), JsNumber(2)>>)
Array_nested == JsArray(<<JsArray(<<JsNumber(1)>>), JsArray(<<JsNumber(1), JsNumber(-1)>>)>>)
Array_null_empty == JsArray(<<JsNull, JsString(<<>>)>>)

\* the values handed to validate
Values ==
    {JsUndefined, JsNull, JsString(<<>>), JsString(Chars_ab), JsString(Chars_email),
     JsString(Chars_null), JsString(Chars_object), JsString(Chars_badObject),
     JsBoolean(TRUE), JsNumber(-1), JsNumber(5), JsNumber(1234567890),
     JsArray(<<>>), Array_1_m1_2, Array_nested, Array_null_empty}

FieldNames == {"f"}

\* the arguments of min / max / minLength / maxLength
Lengths == {2}
MinValues == {0}
MaxValues == {10}

\* the arguments of oneOf
AllowedLists == {<<JsBoolean(TRUE)>>, <<JsString(Chars_ab), JsNumber(5)>>}

\* the finished validators handed to items()
ItemValidators ==
    {NumberMin(NumberValidator, 0),
     BooleanValidator,
     StringMin(StringValidator, 2),
     items(ArrayValidator, NumberMin(NumberValidator, 0))}

\* the finished validators a schema definition maps its fields to
FieldValidators ==
    {required(StringValidator),
     NumberMin(NumberValidator, 0),
     required(BooleanValidator),
     items(ArrayValidator, NumberMin(NumberValidator, 0))}

SchemaFields == {"a", "b"}
RecordFields == {"a", "b", "c"}
RecordValues == {JsNull, JsNumber(-1), Array_1_m1_2}

\* the objects with n entries, keys from keys and values from values
Objects(n, keys, values) ==
    {o \in [1..n -> [key : keys, value : values]] :
        \A i, j \in 1..n : o[i].key = o[j].key => i = j}

\* the schema definitions handed to createSchema
Definitions ==
    UNION {Objects(n, SchemaFields, FieldValidators) : n \in 0..Cardinality(SchemaFields)}

\* the records handed to Schema.validate
Records == UNION {Objects(n, RecordFields, RecordValues) : n \in 0..MaxKeys}

-----------------------------------------------------------------------------
(* The FieldValidator machine: one instance, chained and validated.        *)

\* Validator.string() and the other four: a fresh instance
Create(kind) ==
    /\ self' = Factory(kind)
    /\ calls' = <<>>
    /\ op' = kind
    /\ arg' = NoObject
    /\ result' = Return(self')
    /\ log' = <<>>
    /\ UNCHANGED schemaObj

\* a constraint method named name, which leaves the instance as next and
\* returns it (return this)
Chain(name, next) ==
    /\ Len(self.rules) < MaxRules
    /\ self' = next
    /\ calls' = Append(calls, name)
    /\ op' = name
    /\ arg' = NoObject
    /\ result' = Return(self')
    /\ log' = <<>>
    /\ UNCHANGED schemaObj

CallRequired == Chain("required", required(self))

CallOneOf == \E a \in AllowedLists : Chain("oneOf", oneOf(self, a))

CallEmail == self.kind = "string" /\ Chain("email", email(self))

CallStringMin ==
    self.kind = "string" /\ \E n \in Lengths : Chain("string.min", StringMin(self, n))

CallStringMax ==
    self.kind = "string" /\ \E n \in Lengths : Chain("string.max", StringMax(self, n))

CallReg == self.kind = "string" /\ \E m \in Masks : Chain("reg", reg(self, m))

CallNumberMin ==
    self.kind = "number" /\ \E n \in MinValues : Chain("number.min", NumberMin(self, n))

CallNumberMax ==
    self.kind = "number" /\ \E n \in MaxValues : Chain("number.max", NumberMax(self, n))

CallPhone == self.kind = "number" /\ Chain("phone", phone(self))

CallMinLength ==
    self.kind = "array" /\ \E n \in Lengths : Chain("minLength", minLength(self, n))

CallMaxLength ==
    self.kind = "array" /\ \E n \in Lengths : Chain("maxLength", maxLength(self, n))

CallItems == self.kind = "array" /\ \E v \in ItemValidators : Chain("items", items(self, v))

\* what a validate call leaves behind: its input, what it gave and its log
Called(name, input, r) ==
    /\ op' = name
    /\ arg' = input
    /\ result' = r.out
    /\ log' = r.log

\* self.validate(value, field)
CallValidate ==
    /\ \E value \in Values, field \in FieldNames :
         Called("validate", [value |-> value, field |-> field],
                Validate(self, value, field))
    /\ UNCHANGED <<self, calls, schemaObj>>

Init ==
    /\ \E kind \in Kinds : self = Factory(kind) /\ op = kind
    /\ calls = <<>>
    /\ schemaObj = NoObject
    /\ arg = NoObject
    /\ result = Return(self)
    /\ log = <<>>

Next ==
    \/ \E kind \in Kinds : Create(kind)
    \/ CallRequired
    \/ CallOneOf
    \/ CallEmail
    \/ CallStringMin
    \/ CallStringMax
    \/ CallReg
    \/ CallNumberMin
    \/ CallNumberMax
    \/ CallPhone
    \/ CallMinLength
    \/ CallMaxLength
    \/ CallItems
    \/ CallValidate

Spec == Init /\ [][Next]_vars

-----------------------------------------------------------------------------
(* The Schema machine: one Schema over finished validators.                *)

\* Validator.createSchema(schemaDefinition, only)
CallCreateSchema ==
    /\ \E d \in Definitions, only \in BOOLEAN :
         schemaObj' = createSchema(d, only)
    /\ op' = "createSchema"
    /\ arg' = NoObject
    /\ result' = Return(schemaObj')
    /\ log' = <<>>
    /\ UNCHANGED <<self, calls>>

\* Schema.validate consuming the strict flag: this.only = false after the
\* strict-mode check
CallSchemaValidate_ClearsOnly ==
    /\ \E data \in Records :
         Called("Schema.validate", [data |-> data], SchemaValidate(schemaObj, data))
    /\ schemaObj' = [schemaObj EXCEPT !.only = FALSE]
    /\ UNCHANGED <<self, calls>>

\* schemaObj.validate(data)
CallSchemaValidate ==
    /\ \E data \in Records :
         Called("Schema.validate", [data |-> data], SchemaValidate(schemaObj, data))
    /\ UNCHANGED <<self, calls, schemaObj>>

\* validate(value, key) called on the validator of one of the schema's fields
CallFieldValidate ==
    /\ \E i \in 1..Len(schemaObj.schema), value \in RecordValues :
         Called("validate",
                [value |-> value, field |-> schemaObj.schema[i].key, entry |-> i],
                Validate(schemaObj.schema[i].value, value, schemaObj.schema[i].key))
    /\ UNCHANGED <<self, calls, schemaObj>>

InitSchema ==
    /\ \E d \in Definitions, only \in BOOLEAN : schemaObj = createSchema(d, only)
    /\ self = NoObject
    /\ calls = <<>>
    /\ op = "createSchema"
    /\ arg = NoObject
    /\ result = Return(schemaObj)
    /\ log = <<>>

NextSchema ==
    \/ CallCreateSchema
    \/ CallSchemaValidate
    \/ CallFieldValidate

SpecSchema == InitSchema /\ [][NextSchema]_vars

-----------------------------------------------------------------------------
(* Properties of the FieldValidator machine (checked under Spec).          *)

ConstraintNames ==
    {"required", "oneOf", "email", "string.min", "string.max", "reg", "number.min",
     "number.max", "phone", "minLength", "maxLength", "items"}

Missing == {JsUndefined, JsNull, JsString(<<>>)}

ValidateCalled == op = "validate"

\* the entry of the log made by the validate call itself
Entered == Event("validate", arg.field, 0, self.kind)

\* the Rules of self invoked by the last call, in invocation order (the
\* Rules of an item validator run under a field name with an index)
TopRules == SelectSeq(log, LAMBDA e : e.ev = "rule" /\ e.field = arg.field)

\* whether the class's pre-check lets the value through
PreCheckPasses(this, value) ==
    /\ this.kind = "boolean" => TypeOf(value) = "boolean"
    /\ this.kind = "json" => JsonParses(value)

IsPrefix(s, t) == Len(s) <= Len(t) /\ SubSeq(t, 1, Len(s)) = s

\* C10: after any sequence of constraint-method calls on a validator fresh
\* from the factory, the last call returned the instance it was called on,
\* the Rule sequence holds exactly one Rule per call in call order,
\* required is true exactly when a 'Value is required' Rule is in the
\* sequence, exactly when required() was called; and no call on the
\* instance ever shrinks or rewrites the Rule sequence.
C10_BuilderInvariant ==
    /\ [](/\ op \in ConstraintNames => result = Return(self)
          /\ Len(self.rules) = Len(calls)
          /\ \A i \in 1..Len(calls) : self.rules[i].op = calls[i]
          /\ self.isRequired <=> \E i \in 1..Len(self.rules) : self.rules[i].op = "required"
          /\ self.isRequired <=> \E i \in 1..Len(calls) : calls[i] = "required"
          /\ op \in Kinds => self.rules = <<>> /\ ~self.isRequired)
    /\ [][op' \notin Kinds =>
            /\ IsPrefix(self.rules, self'.rules)
            /\ Len(self'.rules) <= Len(self.rules) + 1
            /\ self'.kind = self.kind]_vars

\* required() called second in a chain of two
C10_Witness ==
    /\ op = "required"
    /\ Len(calls) = 2
    /\ calls[1] # "required"
    /\ self.isRequired
    /\ self.rules[2].op = "required"

\* C2 as stated: a required validator of any kind fails on '', null and
\* undefined with 'Value is required'.
C2_Original ==
    (ValidateCalled /\ self.isRequired /\ arg.value \in Missing)
        => result = Throw(ValidationError(arg.field, "Value is required"))

\* C2 amended: on '', null and undefined a required validator always fails;
\* a string, number or array validator whose first Rule is the required Rule
\* fails with 'Value is required', and so does such a JSON validator on
\* null; a Boolean validator fails with 'Value must be a boolean'; a JSON
\* validator fails on '' and undefined with 'Invalid JSON format'.
C2_Amended ==
    (ValidateCalled /\ self.isRequired /\ arg.value \in Missing) =>
        /\ result.type = "throw"
        /\ (self.kind \in {"string", "number", "array"} /\ self.rules[1].op = "required")
             => result = Throw(ValidationError(arg.field, "Value is required"))
        /\ (self.kind = "json" /\ arg.value = JsNull /\ self.rules[1].op = "required")
             => result = Throw(ValidationError(arg.field, "Value is required"))
        /\ self.kind = "boolean"
             => result = Throw(ValidationError(arg.field, "Value must be a boolean"))
        /\ (self.kind = "json" /\ arg.value # JsNull)
             => result = Throw(ValidationError(arg.field, "Invalid JSON format"))

\* a string validator built required() first, validated on ''
C2_Witness ==
    /\ ValidateCalled
    /\ self.kind = "string"
    /\ Len(self.rules) = 2
    /\ self.rules[1].op = "required"
    /\ arg.value = JsString(<<>>)
    /\ result = Throw(ValidationError(arg.field, "Value is required"))

\* C3: a validator on which required() was never called returns from
\* validate(undefined, f) without failure and without invoking any Rule or
\* pre-check, whatever Rules are chained onto it.
C3_UnsetSkipped ==
    (ValidateCalled /\ ~self.isRequired /\ arg.value = JsUndefined)
        => result = Return(JsUndefined) /\ log = <<Entered>>

\* a Boolean or JSON validator with Rules chained, validated on undefined
C3_Witness ==
    /\ ValidateCalled
    /\ self.kind \in {"boolean", "json"}
    /\ Len(self.rules) > 0
    /\ ~self.isRequired
    /\ arg.value = JsUndefined
    /\ result.type = "return"

\* what the i-th Rule of self gives on the last call's input
RuleGives(i) == ApplyRule(self.rules[i], arg.value, arg.field)

PreChecked ==
    IF self.kind = "boolean" THEN Event("typeof", arg.field, 0, "boolean")
    ELSE Event("JSON.parse", arg.field, 0, "json")

\* C7: a Boolean or JSON validator runs its pre-check after the 'undefined
\* and not required' short-circuit and before every Rule: a value that is
\* not a boolean fails a Boolean validator with 'Value must be a boolean',
\* a value that is no JSON text fails a JSON validator with 'Invalid JSON
\* format', neither invoking any chained Rule, in whatever order the Rules
\* were added; when the pre-check passes the Rules run on the original
\* value.
C7_PreCheckFirst ==
    (ValidateCalled /\ self.kind \in {"boolean", "json"}) =>
        IF Skipped(self, arg.value) THEN log = <<Entered>>
        ELSE IF ~PreCheckPasses(self, arg.value)
        THEN /\ log = <<Entered, PreChecked>>
             /\ result = Throw(ValidationError(arg.field,
                             IF self.kind = "boolean" THEN "Value must be a boolean"
                             ELSE "Invalid JSON format"))
        ELSE /\ IsPrefix(<<Entered, PreChecked>>, log)
             /\ SubSeq(log, 3, Len(log)) = RunRules(self.rules, 1, arg.value, arg.field).log
             /\ result = RunRules(self.rules, 1, arg.value, arg.field).out

\* a Boolean validator with required() and oneOf() chained, on a value that
\* is not a boolean
C7_Witness ==
    /\ ValidateCalled
    /\ self.kind = "boolean"
    /\ Len(self.rules) = 2
    /\ self.isRequired
    /\ arg.value \in Missing
    /\ TopRules = <<>>
    /\ result = Throw(ValidationError(arg.field, "Value must be a boolean"))

\* what the item validator v gives on the element at index i of the last
\* call's value
ItemGives(v, i) == Validate(v, ElementAt(arg.value, i), ItemField(arg.field, i))

\* the elements of the last call's value validated by the item validator
\* of self: the indices i with an entry under f[i] in the log
ItemsVisited(n) ==
    {i \in 0..(n - 1) : \E k \in 1..Len(log) :
        log[k].ev = "validate" /\ log[k].field = ItemField(arg.field, i)}

-----------------------------------------------------------------------------
(* Properties of the Schema machine (checked under SpecSchema).            *)

SchemaValidateCalled == op = "Schema.validate"

Declared == 1..Len(schemaObj.schema)

KeyOf(i) == schemaObj.schema[i].key

\* the i-th declared field is absent from the record and its validator is
\* required
AbsentRequired(i) == ~In(KeyOf(i), arg.data) /\ schemaObj.schema[i].value.isRequired

\* what the validator of the i-th declared field gives on the record's value
FieldGives(i) == Validate(schemaObj.schema[i].value, Get(arg.data, KeyOf(i)), KeyOf(i))

\* the i-th declared field is present and its validator rejects its value
Rejected(i) == In(KeyOf(i), arg.data) /\ Threw(FieldGives(i))

Invalid(i) == AbsentRequired(i) \/ Rejected(i)

First(S) == CHOOSE i \in S : \A j \in S : i <= j

\* the positions in the record of the keys the schema does not declare
Undeclared ==
    {k \in 1..Len(arg.data) : \A i \in Declared : KeyOf(i) # arg.data[k].key}

StrictFailure == schemaObj.only /\ Undeclared # {}

\* the field validators invoked by the last call
ValidatorsInvoked == SelectSeq(log, LAMBDA e : e.ev = "validate")

\* C1 as stated: with two or more invalid declared fields Schema.validate
\* fails with the error of the invalid field that comes first in
\* declaration order.
C1_Original ==
    (SchemaValidateCalled /\ Cardinality({i \in Declared : Invalid(i)}) >= 2) =>
        /\ result.type = "throw"
        /\ "field" \in DOMAIN result.error
        /\ result.error.field = KeyOf(First({i \in Declared : Invalid(i)}))

\* C1 amended: with two or more invalid declared fields and no undeclared
\* key under strict mode, Schema.validate fails with exactly one error: when
\* some declared field is absent and required, 'Field is required' for the
\* first such field in declaration order, even if a field declared before
\* it is present with a rejected value; otherwise the error thrown by the
\* validator of the first present field, in declaration order, whose value
\* is rejected, and no field after it is validated.
C1_Amended ==
    (SchemaValidateCalled /\ ~StrictFailure
       /\ Cardinality({i \in Declared : Invalid(i)}) >= 2) =>
        IF \E i \in Declared : AbsentRequired(i)
        THEN /\ result = Throw(ValidationError(
                             KeyOf(First({i \in Declared : AbsentRequired(i)})),
                             "Field is required"))
             /\ ValidatorsInvoked = <<>>
        ELSE /\ result = FieldGives(First({i \in Declared : Rejected(i)})).out
             /\ \A j \in Declared : j > First({i \in Declared : Rejected(i)}) =>
                    \A k \in 1..Len(ValidatorsInvoked) :
                        ValidatorsInvoked[k].field # KeyOf(j)

\* two present fields with rejected values: the first declared one is
\* reported
C1_Witness ==
    /\ SchemaValidateCalled
    /\ ~StrictFailure
    /\ Len(schemaObj.schema) = 2
    /\ Rejected(1) /\ Rejected(2)
    /\ result = FieldGives(1).out
    /\ "field" \in DOMAIN result.error

\* C4: in strict mode a record with an undeclared key makes Schema.validate
\* fail with "Unexpected field 'k' not defined in schema" for the first
\* undeclared key k in the record's own key order, before the
\* required-field check and before any field validator is invoked, also
\* when a declared field is absent-and-required or has a rejected value.
C4_StrictFirst ==
    (SchemaValidateCalled /\ schemaObj.only /\ Undeclared # {}) =>
        /\ result = Throw(ValidationError(arg.data[First(Undeclared)].key,
                        "Unexpected field '" \o arg.data[First(Undeclared)].key
                            \o "' not defined in schema"))
        /\ log = <<>>

\* two undeclared keys, and a declared field absent although required
C4_Witness ==
    /\ SchemaValidateCalled
    /\ schemaObj.only
    /\ Cardinality(Undeclared) = 2
    /\ \E i \in Declared : AbsentRequired(i)
    /\ result.type = "throw"
    /\ result.error.field = arg.data[1].key

\* the declared fields whose validator is required and whose key is present
\* with the value null
PresentNull ==
    {i \in Declared : /\ schemaObj.schema[i].value.isRequired
                      /\ In(KeyOf(i), arg.data)
                      /\ Get(arg.data, KeyOf(i)) = JsNull}

\* C5: without a strict-mode failure, 'Field is required' is produced
\* exactly when some declared field is absent and required; it names the
\* first such field in declaration order and no field validator was invoked
\* before it.  A required field present with the value null never yields
\* 'Field is required': it passes the key-presence check and its own
\* validator rejects it.
C5_FieldRequired ==
    (SchemaValidateCalled /\ ~StrictFailure) =>
        /\ (result.type = "throw" /\ result.error.message = "Field is required")
             <=> \E i \in Declared : AbsentRequired(i)
        /\ (\E i \in Declared : AbsentRequired(i)) =>
             /\ result = Throw(ValidationError(
                             KeyOf(First({i \in Declared : AbsentRequired(i)})),
                             "Field is required"))
             /\ ValidatorsInvoked = <<>>
        /\ \A i \in PresentNull :
             /\ Threw(FieldGives(i))
             /\ FieldGives(i).out.error.message # "Field is required"
             /\ result.type = "throw"
             /\ result.error.message = "Field is required" => result.error.field # KeyOf(i)
             /\ (\A j \in Declared : j < i => ~Invalid(j)) /\ (\A j \in Declared : ~AbsentRequired(j))
                  => result = FieldGives(i).out

\* one required field present with null, another absent although required
C5_Witness ==
    /\ SchemaValidateCalled
    /\ ~StrictFailure
    /\ PresentNull # {}
    /\ \E i \in Declared : AbsentRequired(i) /\ i > First(PresentNull)
    /\ result.type = "throw"
    /\ result.error.message = "Field is required"

=============================================================================
